---- MODULE Spec2Model ----
(***************************************************************************)
(* A model of the JSON encoder (jsonencode, src/README.md) and of the JSON *)
(* decoder (jsondecode, src/jsonencode.cc) of Octave-GSoC-JSON.            *)
(*                                                                         *)
(* JSON text is modelled as the sequence of tokens the RapidJSON writer    *)
(* emits and the RapidJSON parser reads; an Octave value is a record       *)
(*   [cls, dims, keys, num, chr, sub]                                      *)
(* holding its class, its dim_vector, its field names, and its elements in *)
(* column-major order (numbers in num, characters in chr, nested values    *)
(* in sub).                                                                *)
(***************************************************************************)
EXTENDS Integers, Sequences, FiniteSets, TLC

VARIABLES
  pc,                \* "encode", "decode": the call to make; then its outcome
  nargin,            \* the number of arguments of the call
  obj,               \* the value given to jsonencode: args(0)
  encode_options,    \* the arguments of jsonencode after the value
  ConvertInfAndNaN,  \* the option ConvertInfAndNaN of jsonencode
  PrettyWriter,      \* the option PrettyWriter of jsonencode
  json_class,        \* the class of the first argument of jsondecode
  decode_options,    \* the arguments of jsondecode after the text
  warning_state,     \* the state of the warning Octave:classdef-to-struct
  json,              \* the JSON text, as tokens
  trace,             \* the steps of the last run of the encoder
  doc,               \* the document parsed by jsondecode
  val,               \* the value returned by jsondecode
  status             \* "none", "ok", or the error raised: "print_usage",
                     \* "option_error", "input_error", "parse_error", "error";
                     \* "undefined" after a read out of the range of org_dims

vars ==
  <<pc, nargin, obj, encode_options, ConvertInfAndNaN, PrettyWriter, json_class,
    decode_options, warning_state, json, trace, doc, val, status>>

(***************************************************************************)
(* Bounds of the model.                                                    *)
(***************************************************************************)
MaxRank == 3
MaxDim == 3

(***************************************************************************)
(* Doubles.  A finite double is fl + fn / 2^fe with fl = floor (value) and *)
(* 0 <= fn < 2^fe (fn odd, or fn = 0 and fe = 0); the other values are     *)
(* NaN, NA, +Inf and -Inf.                                                 *)
(***************************************************************************)
Fin(fl, fn, fe) == [sp |-> "fin", fl |-> fl, fn |-> fn, fe |-> fe]

IntNum(k) == Fin(k, 0, 0)

octave_NaN == [sp |-> "nan", fl |-> 0, fn |-> 0, fe |-> 0]

octave_NA == [sp |-> "na", fl |-> 0, fn |-> 0, fe |-> 0]

octave_Inf == [sp |-> "pinf", fl |-> 0, fn |-> 0, fe |-> 0]

octave_NegInf == [sp |-> "ninf", fl |-> 0, fn |-> 0, fe |-> 0]

RECURSIVE Pow2(_)
Pow2(n) == IF n <= 0 THEN 1 ELSE 2 * Pow2(n - 1)

\* std::numeric_limits<double>::epsilon () = 2^-52
EpsilonExp == 52

\* the largest magnitude written as an integer
IntLimit == 999999

\* fabs (floor (value) - value) < epsilon, false for NaN and Inf
NearFloor(value) ==
  /\ value.sp = "fin"
  /\ IF value.fe <= EpsilonExp THEN value.fn = 0
                               ELSE value.fn < Pow2(value.fe - EpsilonExp)

\* value <= k and value >= k for an integer k
LeqInt(value, k) == value.sp = "fin" /\ (value.fl < k \/ (value.fl = k /\ value.fn = 0))

GeqInt(value, k) == value.sp = "fin" /\ value.fl >= k

\* the conversion double -> int64_t of writer.Int64 (value): towards zero
ToInt64(value) == IF value.fl < 0 /\ value.fn > 0 THEN value.fl + 1 ELSE value.fl

IsNonFinite(value) == value.sp \in {"nan", "na", "pinf", "ninf"}

(***************************************************************************)
(* dim_vector and Array helpers of liboctave used by the code.             *)
(***************************************************************************)
RECURSIVE Prod(_)
Prod(dims) == IF Len(dims) = 0 THEN 1 ELSE Head(dims) * Prod(Tail(dims))

RECURSIVE chop_trailing_singletons(_)
chop_trailing_singletons(dims) ==
  IF Len(dims) > 2 /\ dims[Len(dims)] = 1
    THEN chop_trailing_singletons(SubSeq(dims, 1, Len(dims) - 1))
    ELSE dims

num_ones(dims) == Cardinality({i \in DOMAIN dims : dims[i] = 1})

numel(v) == Prod(v.dims)

\* a slip: only the 0x0 array taken as empty
isempty_0x0(v) == v.dims = <<0, 0>>

isempty(v) == numel(v) = 0

isvector(v) == Len(v.dims) = 2 /\ (v.dims[1] = 1 \/ v.dims[2] = 1)

as_row(v) == [v EXCEPT !.dims = <<1, numel(v)>>]

\* 1-based subscripts of the 1-based linear index lin, and back
Ind2Sub(lin, dims) ==
  [d \in DOMAIN dims |-> (((lin - 1) \div Prod(SubSeq(dims, 1, d - 1))) % dims[d]) + 1]

RECURSIVE Sub2Ind(_, _)
Sub2Ind(sub, dims) ==
  IF Len(dims) = 0 THEN 1
  ELSE LET n == Len(dims)
       IN Sub2Ind(SubSeq(sub, 1, n - 1), SubSeq(dims, 1, n - 1))
            + (sub[n] - 1) * Prod(SubSeq(dims, 1, n - 1))

\* Fnum2cell (array, conversion_dims): one cell per index of the dimensions
\* that are not listed, each holding the slice along the listed dimensions
num2cell(v, conversion_dims) ==
  LET listed == {conversion_dims[i] : i \in DOMAIN conversion_dims}
      rdv == [d \in DOMAIN v.dims |-> IF d \in listed THEN 1 ELSE v.dims[d]]
      celldv == [d \in DOMAIN v.dims |-> IF d \in listed THEN v.dims[d] ELSE 1]
      at(c, e) == LET cs == Ind2Sub(c, rdv)
                      es == Ind2Sub(e, celldv)
                  IN Sub2Ind([d \in DOMAIN v.dims |-> IF d \in listed THEN es[d] ELSE cs[d]],
                             v.dims)
      pick(s, c) == IF Len(s) = 0 THEN <<>> ELSE [e \in 1..Prod(celldv) |-> s[at(c, e)]]
  IN [c \in 1..Prod(rdv) |->
        [v EXCEPT !.dims = chop_trailing_singletons(celldv),
                  !.num = pick(v.num, c),
                  !.chr = pick(v.chr, c)]]

(***************************************************************************)
(* Octave values.                                                          *)
(***************************************************************************)
Value(cls, dims, keys, num, chr, sub) ==
  [cls |-> cls, dims |-> dims, keys |-> keys, num |-> num, chr |-> chr, sub |-> sub]

NoValue == Value("none", <<0, 0>>, <<>>, <<>>, <<>>, <<>>)

Scalar(cls, value) == Value(cls, <<1, 1>>, <<>>, <<value>>, <<>>, <<>>)

NumArray(cls, dims, num) == Value(cls, dims, <<>>, num, <<>>, <<>>)

CharArray(dims, chr) == Value("char", dims, <<>>, <<>>, chr, <<>>)

Cell(dims, sub) == Value("cell", dims, <<>>, <<>>, <<>>, sub)

\* a struct array: sub holds, element after element, the value of every field
Struct(dims, keys, sub) == Value("struct", dims, keys, <<>>, <<>>, sub)

\* a function handle, a value jsonencode has no case for
FcnHandle == Value("function_handle", <<1, 1>>, <<>>, <<>>, <<>>, <<>>)

NumericClasses == {"double", "single", "int32"}

isnumeric(v) == v.cls \in NumericClasses

islogical(v) == v.cls = "bool"

is_double_type(v) == v.cls = "double"

is_real_scalar(v) == (isnumeric(v) \/ islogical(v)) /\ v.dims = <<1, 1>>

is_bool_scalar(v) == islogical(v) /\ v.dims = <<1, 1>>

is_bool_matrix(v) == islogical(v) /\ v.dims # <<1, 1>>

is_string(v) == v.cls = "char"

isstruct(v) == v.cls = "struct"

iscell(v) == v.cls = "cell"

\* struct_array(i).getfield (keys(k)), i and k counted from 1
getfield(v, i, k) == v.sub[(i - 1) * Len(v.keys) + k]

(***************************************************************************)
(* The RapidJSON writer: the tokens of the JSON text.  A step of the       *)
(* encoder is a token or a call of set_warning_state.                      *)
(***************************************************************************)
Tok(t) == [t |-> t, num |-> IntNum(0), str |-> <<>>, key |-> ""]

StartArray == Tok("StartArray")

EndArray == Tok("EndArray")

StartObject == Tok("StartObject")

EndObject == Tok("EndObject")

Null == Tok("Null")

Bool(b) == Tok(IF b THEN "True" ELSE "False")

Int64(k) == [Tok("Int64") EXCEPT !.num = IntNum(k)]

Double(d) == [Tok("Double") EXCEPT !.num = d]

String(s) == [Tok("String") EXCEPT !.str = s]

Key(k) == [Tok("Key") EXCEPT !.key = k]

set_warning_state(state) == [Tok("set_warning_state") EXCEPT !.key = state]

IsToken(step) == step.t # "set_warning_state"

\* the outcome of a (partial) run of the encoder: the steps taken, whether
\* error () was called, and whether org_dims was read out of its range
Ok(steps) == [tr |-> steps, err |-> FALSE, oob |-> FALSE, calls |-> {}]

Error == [tr |-> <<>>, err |-> TRUE, oob |-> FALSE, calls |-> {}]

OutOfRange == [tr |-> <<>>, err |-> FALSE, oob |-> TRUE, calls |-> {}]

\* one call of encode_array or encode_string: its level, the dim_vector of
\* its array, the branch it takes ("empty", "vector", "row", "wrap",
\* "split"), idx where it splits, and its depth in the recursion
Call(level, dims, branch, idx) ==
  [level |-> level, dims |-> dims, branch |-> branch, idx |-> idx, depth |-> 1]

\* the call c with the result r of its body: the calls made by the body are
\* one deeper
Called(c, r) ==
  [r EXCEPT !.calls = {c} \cup {[d EXCEPT !.depth = @ + 1] : d \in r.calls}]

\* r1 followed by r2: nothing runs after an error
Then(r1, r2) ==
  IF r1.err \/ r1.oob THEN r1
  ELSE [tr |-> r1.tr \o r2.tr, err |-> r2.err, oob |-> r2.oob, calls |-> r1.calls \cup r2.calls]

RECURSIVE ThenAll(_)
ThenAll(rs) == IF Len(rs) = 0 THEN Ok(<<>>) ELSE Then(Head(rs), ThenAll(Tail(rs)))

Repeat(step, n) == [i \in 1..n |-> step]

(***************************************************************************)
(* The encoder, src/README.md.                                             *)
(***************************************************************************)
encode_numeric(o, convertInfAndNaN) ==
  LET value == o.num[1]
  IN IF is_bool_scalar(o) THEN Ok(<<Bool(value # IntNum(0))>>)
     ELSE IF NearFloor(value) /\ LeqInt(value, IntLimit) /\ GeqInt(value, -IntLimit)
       THEN Ok(<<Int64(ToInt64(value))>>)
     ELSE IF (IsNonFinite(value) /\ convertInfAndNaN) \/ value.sp = "na"
       THEN Ok(<<Null>>)
     ELSE IF is_double_type(o) THEN Ok(<<Double(value)>>)
     ELSE Error

\* a slip: the loop run from the last dimension down
FirstNonSingleton_last(dims) ==
  IF \E i \in DOMAIN dims : dims[i] # 1
    THEN (CHOOSE i \in DOMAIN dims : dims[i] # 1 /\ \A j \in (i + 1)..Len(dims) : dims[j] = 1) - 1
    ELSE Len(dims)

\* for (idx = 0; idx < ndims; ++idx) if (dims(idx) != 1) break;
FirstNonSingleton(dims) ==
  IF \E i \in DOMAIN dims : dims[i] # 1
    THEN (CHOOSE i \in DOMAIN dims : dims[i] # 1 /\ \A j \in 1..(i - 1) : dims[j] = 1) - 1
    ELSE Len(dims)

\* a slip: the array split along its last dimension
ConversionDims_last(idx, ndims) == [i \in 1..(ndims - 1) |-> i]

\* the RowVector conversion_dims built from idx
ConversionDims(idx, ndims) == [i \in 1..(ndims - 1) |-> IF i - 1 < idx THEN i ELSE i + 1]

\* a slip: the loop started one dimension late
PadCount_late(level, ndims) ==
  IF level # 0 /\ ndims - 1 > level + 1 THEN ndims - 2 - level ELSE 0

\* for (int i = level; i < ndims - 1; ++i): the number of iterations
PadCount(level, ndims) ==
  IF level # 0 /\ ndims - 1 > level THEN ndims - 1 - level ELSE 0

\* the characters array(from), ..., array(from + n - 1), indices from 0
CharVector(array, from, n) == [k \in 1..n |-> array.chr[from + k]]

RECURSIVE encode_string(_, _, _)
encode_string(o, org_dims, level) ==
  LET array == o
      ndims == Len(array.dims)
      dims == array.dims
  IN IF isempty(array) THEN Called(Call(level, dims, "empty", 0), Ok(<<String(<<>>)>>))
     ELSE IF isvector(array) THEN
       IF level = 0
         THEN Called(Call(level, dims, "vector", 0),
                     Ok(<<String(CharVector(array, 0, numel(array)))>>))
       ELSE IF org_dims[2] = 0 THEN OutOfRange
       ELSE Called(Call(level, dims, "vector", 0),
                   Ok([i \in 1..(numel(array) \div org_dims[2]) |->
                         String(CharVector(array, (i - 1) * org_dims[2], org_dims[2]))]))
     ELSE IF num_ones(dims) = ndims - 1 THEN
       Called(Call(level, dims, "row", 0),
              ThenAll(<<Ok(Repeat(StartArray, PadCount(level, ndims))),
                        encode_string(as_row(array), org_dims, level),
                        Ok(Repeat(EndArray, PadCount(level, ndims)))>>))
     ELSE IF level + 1 > Len(org_dims) THEN OutOfRange
     ELSE IF org_dims[level + 1] = 1 /\ level # 1 THEN
       Called(Call(level, dims, "wrap", 0),
              ThenAll(<<Ok(<<StartArray>>),
                        encode_string(array, org_dims, level + 1),
                        Ok(<<EndArray>>)>>))
     ELSE
       LET idx == FirstNonSingleton([dims EXCEPT ![2] = 1])
           sub_arrays == num2cell(o, ConversionDims(idx, ndims))
       IN Called(Call(level, dims, "split", idx),
                 ThenAll(<<Ok(<<StartArray>>),
                           ThenAll([i \in DOMAIN sub_arrays |->
                                      encode_string(sub_arrays[i], org_dims, level + 1)]),
                           Ok(<<EndArray>>)>>))

RECURSIVE encode_array(_, _, _, _)
encode_array(o, convertInfAndNaN, org_dims, level) ==
  LET array == [o EXCEPT !.cls = "double"]
      ndims == Len(array.dims)
      dims == array.dims
  IN IF isempty(array) THEN Called(Call(level, dims, "empty", 0), Ok(<<StartArray, EndArray>>))
     ELSE IF isvector(array) THEN
       Called(Call(level, dims, "vector", 0),
       ThenAll(<<Ok(<<StartArray>>),
                 ThenAll([i \in 1..numel(array) |->
                            IF islogical(o)
                              THEN encode_numeric(Scalar("bool", IF array.num[i] = IntNum(0)
                                                                  THEN IntNum(0) ELSE IntNum(1)),
                                                  convertInfAndNaN)
                              ELSE encode_numeric(Scalar("double", array.num[i]),
                                                  convertInfAndNaN)]),
                 Ok(<<EndArray>>)>>))
     ELSE IF num_ones(dims) = ndims - 1 THEN
       Called(Call(level, dims, "row", 0),
              ThenAll(<<Ok(Repeat(StartArray, PadCount(level, ndims))),
                        encode_array(as_row(array), convertInfAndNaN, org_dims, 0),
                        Ok(Repeat(EndArray, PadCount(level, ndims)))>>))
     ELSE IF level + 1 > Len(org_dims) THEN OutOfRange
     ELSE IF org_dims[level + 1] = 1 THEN
       Called(Call(level, dims, "wrap", 0),
              ThenAll(<<Ok(<<StartArray>>),
                        encode_array(array, convertInfAndNaN, org_dims, level + 1),
                        Ok(<<EndArray>>)>>))
     ELSE
       LET idx == FirstNonSingleton(dims)
           sub_arrays == num2cell(o, ConversionDims(idx, ndims))
       IN Called(Call(level, dims, "split", idx),
                 ThenAll(<<Ok(<<StartArray>>),
                           ThenAll([i \in DOMAIN sub_arrays |->
                                      encode_array(sub_arrays[i], convertInfAndNaN,
                                                   org_dims, level + 1)]),
                           Ok(<<EndArray>>)>>))

RECURSIVE encode(_, _)

\* a slip: numel >= 1 in the place of numel > 1
encode_struct_wrap(o, convertInfAndNaN) ==
  LET struct_array == o
      n == numel(struct_array)
      keys == struct_array.keys
  IN ThenAll(<<Ok(IF n >= 1 THEN <<StartArray>> ELSE <<>>),
               ThenAll([i \in 1..n |->
                 ThenAll(<<Ok(<<StartObject>>),
                           ThenAll([k \in DOMAIN keys |->
                             Then(Ok(<<Key(keys[k])>>),
                                  encode(getfield(struct_array, i, k), convertInfAndNaN))]),
                           Ok(<<EndObject>>)>>)]),
               Ok(IF n >= 1 THEN <<EndArray>> ELSE <<>>)>>)

encode_struct(o, convertInfAndNaN) ==
  LET struct_array == o
      n == numel(struct_array)
      keys == struct_array.keys
  IN ThenAll(<<Ok(IF n > 1 THEN <<StartArray>> ELSE <<>>),
               ThenAll([i \in 1..n |->
                 ThenAll(<<Ok(<<StartObject>>),
                           ThenAll([k \in DOMAIN keys |->
                             Then(Ok(<<Key(keys[k])>>),
                                  encode(getfield(struct_array, i, k), convertInfAndNaN))]),
                           Ok(<<EndObject>>)>>)]),
               Ok(IF n > 1 THEN <<EndArray>> ELSE <<>>)>>)

encode_cell(o, convertInfAndNaN) ==
  LET cell == o
  IN ThenAll(<<Ok(<<StartArray>>),
               ThenAll([i \in 1..numel(cell) |-> encode(cell.sub[i], convertInfAndNaN)]),
               Ok(<<EndArray>>)>>)

\* obj.scalar_map_value ().getfield ("map"): the struct that holds the
\* entries of a containers.Map under its keys
\* the place of a key in the ascending order of the keys (keys are letters)
KeyRank(key) ==
  CHOOSE r \in 1..8 : <<"a", "b", "c", "d", "e", "f", "g", "h">>[r] = key

\* the index in keys of the key that is number j in ascending order
SortedIndex(keys, j) ==
  CHOOSE i \in DOMAIN keys :
    Cardinality({m \in DOMAIN keys : KeyRank(keys[m]) < KeyRank(keys[i])}) = j - 1

\* a slip: the members of the map in the order in which its keys were inserted
MapField_inserted(o) == Struct(<<1, 1>>, o.keys, o.sub)

\* obj.scalar_map_value ().getfield ("map"): the struct that containers.Map
\* keeps its data in; the class keeps the fields of that struct in ascending
\* key order, whatever the order in which the keys were inserted
\* (jsonencode (containers.Map ({'foo'; 'bar'; 'baz'}, [1, 2, 3])) is
\* {"bar":2,"baz":3,"foo":1})
MapField(o) ==
  Struct(<<1, 1>>, [j \in DOMAIN o.keys |-> o.keys[SortedIndex(o.keys, j)]],
         [j \in DOMAIN o.keys |-> o.sub[SortedIndex(o.keys, j)]])

encode(o, convertInfAndNaN) ==
  IF is_real_scalar(o) THEN encode_numeric(o, convertInfAndNaN)
  ELSE IF isnumeric(o) \/ islogical(o) THEN encode_array(o, convertInfAndNaN, o.dims, 0)
  ELSE IF is_string(o) THEN encode_string(o, o.dims, 0)
  ELSE IF isstruct(o) THEN encode_struct(o, convertInfAndNaN)
  ELSE IF iscell(o) THEN encode_cell(o, convertInfAndNaN)
  ELSE IF o.cls = "containers.Map" THEN
    ThenAll(<<Ok(<<set_warning_state("off")>>),
              encode_struct(MapField(o), convertInfAndNaN),
              Ok(<<set_warning_state("on")>>)>>)
  ELSE Error

(***************************************************************************)
(* The RapidJSON document: the node tree Document::Parse builds from the   *)
(* JSON text.  The members of an object are names[i], elems[i].            *)
(***************************************************************************)
Node(t, ntype, num, str, names, elems) ==
  [t |-> t, ntype |-> ntype, num |-> num, str |-> str, names |-> names, elems |-> elems]

NullNode == Node("Null", "", IntNum(0), <<>>, <<>>, <<>>)

BoolNode(b) == Node(IF b THEN "True" ELSE "False", "", IntNum(0), <<>>, <<>>, <<>>)

NumberNode(ntype, num) == Node("Number", ntype, num, <<>>, <<>>, <<>>)

StringNode(s) == Node("String", "", IntNum(0), s, <<>>, <<>>)

ArrayNode(elems) == Node("Array", "", IntNum(0), <<>>, <<>>, elems)

ObjectNode(names, elems) == Node("Object", "", IntNum(0), <<>>, names, elems)

ParseErrorNode == Node("ParseError", "", IntNum(0), <<>>, <<>>, <<>>)

\* the outcome of parsing one value that starts at token i
Parsed(node, next) == [ok |-> TRUE, node |-> node, next |-> next]

\* no value can be parsed: the text is in error at token i
NotParsed(i) == [ok |-> FALSE, node |-> ParseErrorNode, next |-> i]

RECURSIVE ParseValue(_, _), ParseElements(_, _, _), ParseMembers(_, _, _, _)

ParseValue(toks, i) ==
  IF i > Len(toks) THEN NotParsed(i)
  ELSE LET tok == toks[i]
       IN CASE tok.t = "Null" -> Parsed(NullNode, i + 1)
            [] tok.t = "True" -> Parsed(BoolNode(TRUE), i + 1)
            [] tok.t = "False" -> Parsed(BoolNode(FALSE), i + 1)
            [] tok.t = "Int64" ->
                 Parsed(NumberNode(IF tok.num.fl >= 0 THEN "uint" ELSE "int", tok.num), i + 1)
            [] tok.t = "Double" -> Parsed(NumberNode("double", tok.num), i + 1)
            [] tok.t = "String" -> Parsed(StringNode(tok.str), i + 1)
            [] tok.t = "StartArray" -> ParseElements(toks, i + 1, <<>>)
            [] tok.t = "StartObject" -> ParseMembers(toks, i + 1, <<>>, <<>>)
            [] OTHER -> NotParsed(i)

ParseElements(toks, i, elems) ==
  IF i > Len(toks) THEN NotParsed(i)
  ELSE IF toks[i].t = "EndArray" THEN Parsed(ArrayNode(elems), i + 1)
  ELSE LET r == ParseValue(toks, i)
       IN IF r.ok THEN ParseElements(toks, r.next, Append(elems, r.node)) ELSE r

ParseMembers(toks, i, names, elems) ==
  IF i > Len(toks) THEN NotParsed(i)
  ELSE IF toks[i].t = "EndObject" THEN Parsed(ObjectNode(names, elems), i + 1)
  ELSE IF toks[i].t # "Key" THEN NotParsed(i)
  ELSE LET r == ParseValue(toks, i + 1)
       IN IF r.ok
            THEN ParseMembers(toks, r.next, Append(names, toks[i].key), Append(elems, r.node))
            ELSE r

\* the document after a parse error at the offset off, counted in tokens from 0
ParseErrorAt(off) == [ParseErrorNode EXCEPT !.num = IntNum(off)]

\* d.Parse (json): a document is exactly one value
Parse(toks) ==
  LET r == ParseValue(toks, 1)
  IN IF r.ok /\ r.next = Len(toks) + 1 THEN r.node ELSE ParseErrorAt(r.next - 1)

\* a slip: the parse error of the document not looked at
HasParseError_never(d) == FALSE

HasParseError(d) == d.t = "ParseError"

\* d.GetErrorOffset ()
GetErrorOffset(d) == d.num.fl

(***************************************************************************)
(* The decoder, src/jsonencode.cc lines 87 to 496.                         *)
(***************************************************************************)
\* the value that stands for a call of error () during decoding
ErrorValue == Value("error", <<0, 0>>, <<>>, <<>>, <<>>, <<>>)

IsError(v) == v.cls = "error"

\* NDArray (dim_vector (0,0))
EmptyMatrix == NumArray("double", <<0, 0>>, <<>>)

\* matlab.lang.makeValidName (name, options): a name that is no valid
\* identifier is changed as the ReplacementStyle option says
makeValidName(name, options) ==
  IF name = "a-b"
    THEN IF \E i \in DOMAIN options :
              i % 2 = 1 /\ i < Len(options)
                /\ options[i] = "ReplacementStyle" /\ options[i + 1] = "delete"
           THEN "ab" ELSE "a_b"
    ELSE name

\* a slip: the names compared as sets, whatever their order
equals_unordered(a, b) == {a[i] : i \in DOMAIN a} = {b[i] : i \in DOMAIN b}

equals(a, b) ==
  IF Len(a) # Len(b) THEN FALSE
  ELSE \A i \in 1..Len(a) : a[i] = b[i]

decode_number(node) ==
  IF node.ntype \in {"uint", "int", "uint64", "int64", "double"}
    THEN Scalar("double", node.num)
    ELSE ErrorValue

\* octave_scalar_map::assign (name, value) on the map with the fields keys
\* and the values vals
AssignField(m, name, value) ==
  IF \E i \in DOMAIN m.keys : m.keys[i] = name
    THEN LET i == CHOOSE i \in DOMAIN m.keys : m.keys[i] = name
         IN [m EXCEPT !.sub[i] = value]
    ELSE [m EXCEPT !.keys = Append(m.keys, name), !.sub = Append(m.sub, value)]

RECURSIVE decode(_, _)

RECURSIVE DecodeMembers(_, _, _, _)
DecodeMembers(node, options, i, retval) ==
  IF i > Len(node.names) THEN retval
  ELSE LET validName == makeValidName(node.names[i], options)
           value == decode(node.elems[i], options)
       IN IF IsError(value) THEN ErrorValue
          ELSE DecodeMembers(node, options, i + 1, AssignField(retval, validName, value))

\* a slip: the options not handed on
decode_object_plain(node, options) ==
  DecodeMembers(node, <<>>, 1, Struct(<<1, 1>>, <<>>, <<>>))

decode_object(node, options) ==
  DecodeMembers(node, options, 1, Struct(<<1, 1>>, <<>>, <<>>))

\* a slip: a null element taken for the number 0
decode_numeric_array_zero(node) ==
  LET elems == [i \in DOMAIN node.elems |->
                  IF node.elems[i].t = "Null" THEN Scalar("double", IntNum(0))
                  ELSE decode_number(node.elems[i])]
  IN IF \E i \in DOMAIN elems : IsError(elems[i]) THEN ErrorValue
     ELSE NumArray("double", <<Len(node.elems), 1>>, [i \in DOMAIN elems |-> elems[i].num[1]])

decode_numeric_array(node) ==
  LET elems == [i \in DOMAIN node.elems |->
                  IF node.elems[i].t = "Null" THEN Scalar("double", octave_NaN)
                  ELSE decode_number(node.elems[i])]
  IN IF \E i \in DOMAIN elems : IsError(elems[i]) THEN ErrorValue
     ELSE NumArray("double", <<Len(node.elems), 1>>, [i \in DOMAIN elems |-> elems[i].num[1]])

decode_boolean_array(node) ==
  NumArray("bool", <<Len(node.elems), 1>>,
           [i \in DOMAIN node.elems |-> IF node.elems[i].t = "True" THEN IntNum(1) ELSE IntNum(0)])

decode_string_and_mixed_array(node, options) ==
  LET retval == [i \in DOMAIN node.elems |-> decode(node.elems[i], options)]
  IN IF \E i \in DOMAIN retval : IsError(retval[i]) THEN ErrorValue
     ELSE Cell(<<Len(node.elems), 1>>, retval)

decode_object_array(node, options) ==
  LET struct_cell == decode_string_and_mixed_array(node, options)
      field_names == struct_cell.sub[1].keys
      same_field_names == \A i \in 2..numel(struct_cell) :
                            equals(field_names, struct_cell.sub[i].keys)
  IN IF IsError(struct_cell) THEN ErrorValue
     ELSE IF same_field_names THEN
       \* octave_map struct_array is 0x0 until the first field is assigned
       IF Len(field_names) = 0 THEN Struct(<<0, 0>>, <<>>, <<>>)
       ELSE Struct(<<numel(struct_cell), 1>>, field_names,
                   [j \in 1..(numel(struct_cell) * Len(field_names)) |->
                      LET k == ((j - 1) \div Len(field_names)) + 1
                          i == ((j - 1) % Len(field_names)) + 1
                      IN struct_cell.sub[k].sub[i]])
     ELSE struct_cell

\* a slip: the array filled sub-array after sub-array
decode_array_of_arrays_major(node, options) ==
  LET cell == decode_string_and_mixed_array(node, options)
      is_bool == is_bool_matrix(cell.sub[1])
      sub_array_dims == cell.sub[1].dims
      sub_array_ndims == Len(sub_array_dims)
      cell_numel == numel(cell)
      array_dims == [i \in 1..(sub_array_ndims + 1) |->
                       IF i = 1 THEN cell_numel ELSE sub_array_dims[i - 1]]
  IN IF IsError(cell) THEN ErrorValue
     ELSE IF \E i \in 1..cell_numel :
               \/ iscell(cell.sub[i])
               \/ cell.sub[i].dims # sub_array_dims
               \/ sub_array_dims = <<0, 0>>
               \/ is_bool_matrix(cell.sub[i]) # is_bool
       THEN cell
     ELSE IF \E k \in 1..cell_numel : ~ (isnumeric(cell.sub[k]) \/ islogical(cell.sub[k]))
       THEN ErrorValue
     ELSE NumArray("double", chop_trailing_singletons(array_dims),
                   [array_index \in 1..Prod(array_dims) |->
                      LET k == (array_index - 1) \div Prod(sub_array_dims)
                          i == (array_index - 1) % Prod(sub_array_dims)
                      IN cell.sub[k + 1].num[i + 1]])

decode_array_of_arrays(node, options) ==
  LET cell == decode_string_and_mixed_array(node, options)
      is_bool == is_bool_matrix(cell.sub[1])
      sub_array_dims == cell.sub[1].dims
      sub_array_ndims == Len(sub_array_dims)
      cell_numel == numel(cell)
      array_dims == [i \in 1..(sub_array_ndims + 1) |->
                       IF i = 1 THEN cell_numel ELSE sub_array_dims[i - 1]]
  IN IF IsError(cell) THEN ErrorValue
     ELSE IF \E i \in 1..cell_numel :
               \/ iscell(cell.sub[i])
               \/ cell.sub[i].dims # sub_array_dims
               \/ sub_array_dims = <<0, 0>>
               \/ is_bool_matrix(cell.sub[i]) # is_bool
       THEN cell
     \* cell(k).array_value () raises an error for a struct
     ELSE IF \E k \in 1..cell_numel : ~ (isnumeric(cell.sub[k]) \/ islogical(cell.sub[k]))
       THEN ErrorValue
     ELSE NumArray("double", chop_trailing_singletons(array_dims),
                   [array_index \in 1..Prod(array_dims) |->
                      LET i == (array_index - 1) \div cell_numel
                          k == (array_index - 1) % cell_numel
                      IN cell.sub[k + 1].num[i + 1]])

\* a slip: true and false taken for two kinds of element
decode_array_strict(node, options) ==
  IF Len(node.elems) = 0 THEN EmptyMatrix
  ELSE LET array_type == node.elems[1].t
           is_numeric == \A i \in DOMAIN node.elems : node.elems[i].t \in {"Null", "Number"}
           same_type == \A i \in DOMAIN node.elems : node.elems[i].t = array_type
       IN IF is_numeric THEN decode_numeric_array(node)
          ELSE IF same_type THEN
            IF array_type \in {"True", "False"} THEN decode_boolean_array(node)
            ELSE IF array_type = "String" THEN decode_string_and_mixed_array(node, options)
            ELSE IF array_type = "Object" THEN decode_object_array(node, options)
            ELSE IF array_type = "Array" THEN decode_array_of_arrays(node, options)
            ELSE ErrorValue
          ELSE decode_string_and_mixed_array(node, options)

decode_array(node, options) ==
  IF Len(node.elems) = 0 THEN EmptyMatrix
  ELSE LET array_type == node.elems[1].t
           is_numeric == \A i \in DOMAIN node.elems : node.elems[i].t \in {"Null", "Number"}
           same_type == \A i \in DOMAIN node.elems :
                          \/ node.elems[i].t = array_type
                          \/ (node.elems[i].t = "True" /\ array_type = "False")
                          \/ (node.elems[i].t = "False" /\ array_type = "True")
       IN IF is_numeric THEN decode_numeric_array(node)
          ELSE IF same_type THEN
            IF array_type \in {"True", "False"} THEN decode_boolean_array(node)
            ELSE IF array_type = "String" THEN decode_string_and_mixed_array(node, options)
            ELSE IF array_type = "Object" THEN decode_object_array(node, options)
            ELSE IF array_type = "Array" THEN decode_array_of_arrays(node, options)
            ELSE ErrorValue
          ELSE decode_string_and_mixed_array(node, options)

\* a slip: null decoded to NaN wherever it stands
decode_null_nan(node, options) ==
  IF node.t \in {"True", "False"} THEN Scalar("bool", IF node.t = "True" THEN IntNum(1) ELSE IntNum(0))
  ELSE IF node.t = "Number" THEN decode_number(node)
  ELSE IF node.t = "String"
    THEN CharArray(IF Len(node.str) = 0 THEN <<0, 0>> ELSE <<1, Len(node.str)>>, node.str)
  ELSE IF node.t = "Object" THEN decode_object(node, options)
  ELSE IF node.t = "Null" THEN Scalar("double", octave_NaN)
  ELSE IF node.t = "Array" THEN decode_array(node, options)
  ELSE ErrorValue

decode(node, options) ==
  IF node.t \in {"True", "False"} THEN Scalar("bool", IF node.t = "True" THEN IntNum(1) ELSE IntNum(0))
  ELSE IF node.t = "Number" THEN decode_number(node)
  ELSE IF node.t = "String"
    THEN CharArray(IF Len(node.str) = 0 THEN <<0, 0>> ELSE <<1, Len(node.str)>>, node.str)
  ELSE IF node.t = "Object" THEN decode_object(node, options)
  ELSE IF node.t = "Null" THEN EmptyMatrix
  ELSE IF node.t = "Array" THEN decode_array(node, options)
  ELSE ErrorValue

(***************************************************************************)
(* The values given to jsonencode.                                         *)
(***************************************************************************)
MaxElements == 27

\* the dim_vectors of the non-scalar, non-empty arrays within the bounds
Shapes ==
  {s \in UNION {[1..r -> 1..MaxDim] : r \in 2..MaxRank} :
     (Len(s) = 2 \/ s[Len(s)] # 1) /\ Prod(s) > 1 /\ Prod(s) <= MaxElements}

EmptyShapes == {<<0, 0>>, <<0, 2>>, <<2, 0>>, <<1, 0>>, <<2, 0, 2>>}

\* 1 + 2^-52, 2^-60, -1 + 2^-53, 3.5, -3.5, 1000000.5
SampleFractions ==
  {Fin(1, 1, 52), Fin(0, 1, 60), Fin(-1, 1, 53), Fin(3, 1, 1), Fin(-4, 1, 1),
   Fin(IntLimit + 1, 1, 1)}

SampleIntegers ==
  {IntNum(0), IntNum(1), IntNum(-1), IntNum(7), IntNum(IntLimit), IntNum(-IntLimit),
   IntNum(IntLimit + 1), IntNum(-IntLimit - 1)}

NonFinite == {octave_NaN, octave_Inf, octave_NegInf, octave_NA}

ScalarInputs ==
  {Scalar("double", v) : v \in SampleIntegers \cup SampleFractions \cup NonFinite}
    \cup {Scalar("single", v) : v \in SampleIntegers \cup {Fin(3, 1, 1), octave_NaN, octave_Inf}}
    \cup {Scalar("int32", v) : v \in SampleIntegers}
    \cup {Scalar("bool", IntNum(0)), Scalar("bool", IntNum(1))}

\* the elements 1, 2, 3, ... in storage order, the first one replaced by v
Filled(n, v) == [i \in 1..n |-> IF i = 1 THEN v ELSE IntNum(i)]

ArrayInputs ==
  {NumArray("double", s, Filled(Prod(s), v)) :
     s \in Shapes, v \in {IntNum(1), Fin(3, 1, 1), Fin(0, 1, 60)} \cup NonFinite}
    \cup {NumArray(c, s, Filled(Prod(s), IntNum(1))) : s \in Shapes, c \in {"single", "int32"}}
    \cup {NumArray("bool", s, [i \in 1..Prod(s) |-> IntNum((i + b) % 2)]) :
            s \in Shapes, b \in {0, 1}}
    \cup {NumArray(c, s, <<>>) : s \in EmptyShapes, c \in {"double", "bool"}}

Letters == <<"a", "b", "c", "d", "e", "f", "g", "h">>

Chars(n) == [i \in 1..n |-> Letters[((i - 1) % Len(Letters)) + 1]]

StringInputs ==
  {CharArray(s, Chars(Prod(s))) : s \in Shapes \cup {<<1, 1>>}}
    \cup {CharArray(s, <<>>) : s \in EmptyShapes}

\* values stored in the fields of a struct and in the elements of a cell
FieldValues ==
  <<Scalar("double", IntNum(1)),
    Scalar("double", octave_NaN),
    NumArray("double", <<1, 4>>, <<IntNum(7), octave_NaN, octave_Inf, octave_NegInf>>),
    NumArray("double", <<0, 0>>, <<>>),
    Struct(<<1, 1>>, <<>>, <<>>),
    CharArray(<<0, 0>>, <<>>),
    CharArray(<<1, 2>>, <<"h", "i">>),
    Scalar("bool", IntNum(0)),
    Cell(<<1, 2>>, <<Scalar("double", octave_NegInf), CharArray(<<1, 1>>, <<"x">>)>>),
    Struct(<<1, 1>>, <<"f">>, <<Scalar("double", octave_Inf)>>),
    Scalar("double", Fin(3, 1, 1))>>

\* n values of FieldValues, starting at the one numbered from
Fields(n, from) == [j \in 1..n |-> FieldValues[((from + j - 2) % Len(FieldValues)) + 1]]

KeyLists == {<<>>, <<"a">>, <<"b", "a">>, <<"a", "c", "b">>}

MaxNumel == 2

StructInputs ==
  {Struct(IF n = 0 THEN <<0, 0>> ELSE <<1, n>>, k, Fields(n * Len(k), from)) :
     n \in 0..MaxNumel, k \in KeyLists, from \in 1..Len(FieldValues)}

CellInputs ==
  {Cell(IF n = 0 THEN <<0, 0>> ELSE <<n, 1>>, Fields(n, from)) :
     n \in 0..MaxNumel, from \in 1..Len(FieldValues)}

\* a containers.Map, given by its keys in the order of insertion and the
\* values mapped to them
Map(keys, sub) == Value("containers.Map", <<1, 1>>, keys, <<>>, <<>>, sub)

MapKeyLists == {<<>>, <<"a">>, <<"a", "b">>, <<"b", "a">>, <<"c", "a", "b">>}

MapInputs ==
  {Map(k, Fields(Len(k), from)) : k \in MapKeyLists, from \in 1..Len(FieldValues)}
    \cup {Map(<<"b", "a">>, <<Scalar("double", IntNum(1)), FcnHandle>>),
          Map(<<"a", "b">>, <<FcnHandle, Scalar("double", IntNum(1))>>),
          Map(<<"a">>, <<Map(<<"b">>, <<Scalar("double", octave_NaN)>>)>>),
          Map(<<"a">>, <<Map(<<"b">>, <<FcnHandle>>)>>),
          Map(<<"b", "a">>, <<Scalar("double", IntNum(1)),
                              Map(<<"c">>, <<Scalar("double", IntNum(2))>>)>>)}

\* values that hold maps in their fields and elements
NestedMapInputs ==
  {Cell(<<2, 1>>, <<Map(<<"b", "a">>, Fields(2, 1)), Map(<<"a">>, Fields(1, 2))>>),
   Cell(<<2, 1>>, <<Map(<<"a">>, Fields(1, 1)), FcnHandle>>),
   Struct(<<1, 1>>, <<"m", "x">>, <<Map(<<"b", "a">>, Fields(2, 3)), Scalar("double", IntNum(1))>>),
   Struct(<<1, 1>>, <<"m", "x">>, <<Map(<<"a">>, Fields(1, 1)), Scalar("single", octave_Inf)>>)}

EncodeInputs ==
  ScalarInputs \cup ArrayInputs \cup StringInputs \cup StructInputs \cup CellInputs
    \cup MapInputs \cup NestedMapInputs \cup {FcnHandle}

(***************************************************************************)
(* The JSON texts given to jsondecode.                                     *)
(***************************************************************************)
RECURSIVE Text(_)
RECURSIVE TextAll(_)
TextAll(ts) == IF Len(ts) = 0 THEN <<>> ELSE Head(ts) \o TextAll(Tail(ts))

\* the JSON text of a node
Text(node) ==
  CASE node.t = "Null" -> <<Null>>
    [] node.t = "True" -> <<Bool(TRUE)>>
    [] node.t = "False" -> <<Bool(FALSE)>>
    [] node.t = "Number" ->
         IF node.ntype = "double" THEN <<Double(node.num)>> ELSE <<Int64(node.num.fl)>>
    [] node.t = "String" -> <<String(node.str)>>
    [] node.t = "Array" ->
         <<StartArray>> \o TextAll([i \in DOMAIN node.elems |-> Text(node.elems[i])])
           \o <<EndArray>>
    [] node.t = "Object" ->
         <<StartObject>>
           \o TextAll([i \in DOMAIN node.elems |-> <<Key(node.names[i])>> \o Text(node.elems[i])])
           \o <<EndObject>>

UintNode(k) == NumberNode("uint", IntNum(k))

MaxLen == 3

MaxObjects == 3

\* the elements of the flat arrays
Elements ==
  {NullNode, BoolNode(TRUE), BoolNode(FALSE), UintNode(1), NumberNode("double", Fin(2, 1, 1)),
   StringNode(<<"s">>), ObjectNode(<<"a">>, <<UintNode(1)>>),
   ArrayNode(<<UintNode(1), UintNode(2)>>)}

FlatArrays == {ArrayNode(e) : e \in UNION {[1..n -> Elements] : n \in 0..MaxLen}}

\* the member names of the objects; "a-b" is no valid identifier
NameLists ==
  {<<>>, <<"a">>, <<"a", "b">>, <<"b", "a">>, <<"a-b", "a">>, <<"a_b", "a">>, <<"a", "a">>}

MemberValues ==
  <<NullNode, ArrayNode(<<UintNode(1), UintNode(2)>>), ObjectNode(<<"a">>, <<NullNode>>),
    StringNode(<<"s">>), BoolNode(TRUE)>>

\* object number k with the member names ns: numbers that tell the members
\* apart (plain = TRUE), or values of several kinds
ObjectOf(ns, k, plain) ==
  ObjectNode(ns, [j \in DOMAIN ns |->
                    IF plain THEN UintNode(10 * k + j)
                    ELSE MemberValues[((k + j) % Len(MemberValues)) + 1]])

ObjectArrays ==
  {ArrayNode([k \in DOMAIN nss |-> ObjectOf(nss[k], k, plain)]) :
     nss \in UNION {[1..n -> NameLists] : n \in 1..MaxObjects}, plain \in BOOLEAN}

InnerArrays ==
  {ArrayNode(<<>>), ArrayNode(<<UintNode(1), UintNode(2)>>), ArrayNode(<<UintNode(3), NullNode>>),
   ArrayNode(<<UintNode(1)>>), ArrayNode(<<BoolNode(TRUE), BoolNode(FALSE)>>),
   ArrayNode(<<BoolNode(TRUE)>>), ArrayNode(<<StringNode(<<"s">>)>>),
   ArrayNode(<<ObjectNode(<<"a">>, <<UintNode(1)>>)>>),
   ArrayNode(<<ArrayNode(<<UintNode(1), UintNode(2)>>), ArrayNode(<<UintNode(3), UintNode(4)>>)>>),
   ArrayNode(<<ArrayNode(<<UintNode(1)>>), ArrayNode(<<UintNode(2)>>)>>)}

ArraysOfArrays == {ArrayNode(e) : e \in UNION {[1..n -> InnerArrays] : n \in 1..2}}

\* objects whose member names collide once made valid, at the top and nested
CollidingObjects ==
  {ObjectNode(<<"a-b", "a", "a_b">>, <<UintNode(1), UintNode(2), UintNode(3)>>),
   ObjectNode(<<"a", "a-b", "a">>,
              <<NullNode,
                ObjectNode(<<"a-b", "ab">>, <<UintNode(1), StringNode(<<"s">>)>>),
                ArrayNode(<<ObjectNode(<<"a-b">>, <<NullNode>>)>>)>>)}

Documents ==
  Elements \cup FlatArrays \cup ObjectArrays \cup ArraysOfArrays \cup CollidingObjects
    \cup {ObjectOf(ns, 1, plain) : ns \in NameLists, plain \in BOOLEAN}

DecodeInputs == {Text(d) : d \in Documents}

\* texts that are no JSON value
MalformedTexts ==
  {<<>>, <<StartArray>>, <<StartArray, Int64(1)>>, <<EndArray>>, <<Int64(1), Int64(2)>>,
   <<StartObject, Key("a"), EndObject>>, <<StartObject, Int64(1), EndObject>>,
   <<StartArray, Int64(1), StartObject, Key("a"), Null, EndArray>>}

OptionLists == {<<>>, <<"ReplacementStyle", "delete">>}

\* options that are no complete (name, value) pairs
IncompleteOptionLists == {<<"ReplacementStyle">>, <<"ReplacementStyle", "delete", "Prefix">>}

\* the calls of jsondecode: the class and the text of the first argument and
\* the arguments after it
DecodeCall(n, cls, text, options) ==
  [nargin |-> n, json_class |-> cls, json |-> text, decode_options |-> options]

DecodeCalls ==
  {DecodeCall(1 + Len(o), "char", t, o) : t \in DecodeInputs \cup MalformedTexts, o \in OptionLists}
    \cup {DecodeCall(5, "char", Text(ObjectOf(ns, 1, TRUE)),
                     <<"Prefix", "x", "ReplacementStyle", "delete">>) : ns \in NameLists}
    \cup {DecodeCall(1 + Len(o), "char", t, o) :
            t \in {<<Int64(1)>>, <<StartArray>>}, o \in IncompleteOptionLists}
    \cup {DecodeCall(1 + Len(o), c, <<>>, o) :
            c \in {"double", "cell"}, o \in OptionLists \cup IncompleteOptionLists}
    \cup {DecodeCall(0, "none", <<>>, <<>>)}

(***************************************************************************)
(* The arguments given to jsonencode after the value.                      *)
(***************************************************************************)
Name_ConvertInfAndNaN ==
  <<"C", "o", "n", "v", "e", "r", "t", "I", "n", "f", "A", "n", "d", "N", "a", "N">>

Name_PrettyWriter == <<"P", "r", "e", "t", "t", "y", "W", "r", "i", "t", "e", "r">>

\* a character row vector
Str(chars) == CharArray(<<1, Len(chars)>>, chars)

MaxOptionArgs == 4

\* the values given as option names and option values
OptionArgs ==
  {Str(Name_ConvertInfAndNaN), Str(Name_PrettyWriter),
   Str(<<"c", "o", "n", "v", "e", "r", "t", "i", "n", "f", "a", "n", "d", "n", "a", "n">>),
   Str(<<"F", "o", "o">>),
   Scalar("bool", IntNum(1)), Scalar("bool", IntNum(0)), Scalar("double", IntNum(1))}

EncodeOptionLists == UNION {[1..n -> OptionArgs] : n \in 0..MaxOptionArgs}

\* the calls of jsonencode: the value and the arguments after it
EncodeCall(n, value, options) == [nargin |-> n, obj |-> value, encode_options |-> options]

EncodeCalls ==
  {EncodeCall(1 + Len(o), v, o) :
     v \in EncodeInputs,
     o \in {<<>>, <<Str(Name_ConvertInfAndNaN), Scalar("bool", IntNum(0))>>}}
    \cup {EncodeCall(1 + Len(o), v, o) :
            v \in {Scalar("double", octave_NaN), Map(<<"a">>, <<Scalar("double", octave_Inf)>>)},
            o \in EncodeOptionLists}
    \cup {EncodeCall(0, NoValue, <<>>)}

(***************************************************************************)
(* The two entry points.                                                   *)
(***************************************************************************)
NoNode == Node("None", "", IntNum(0), <<>>, <<>>, <<>>)

RECURSIVE HasMap(_)
HasMap(v) == v.cls = "containers.Map" \/ \E i \in DOMAIN v.sub : HasMap(v.sub[i])

Init ==
  /\ pc \in {"encode", "decode"}
  /\ IF pc = "encode"
       THEN /\ \E c \in EncodeCalls :
                 nargin = c.nargin /\ obj = c.obj /\ encode_options = c.encode_options
            /\ json_class = "none"
            /\ json = <<>>
            /\ decode_options = <<>>
       ELSE /\ \E c \in DecodeCalls :
                 /\ nargin = c.nargin /\ json_class = c.json_class
                 /\ json = c.json /\ decode_options = c.decode_options
            /\ obj = NoValue
            /\ encode_options = <<>>
  /\ ConvertInfAndNaN = TRUE
  /\ PrettyWriter = FALSE
  /\ warning_state \in (IF HasMap(obj) THEN {"on", "off", "error"} ELSE {"on"})
  /\ trace = <<>>
  /\ doc = NoNode
  /\ val = NoValue
  /\ status = "none"

\* the warning state after the steps tr
RECURSIVE WarningAfter(_, _)
WarningAfter(state, tr) ==
  IF Len(tr) = 0 THEN state
  ELSE WarningAfter(IF Head(tr).t = "set_warning_state" THEN Head(tr).key ELSE state, Tail(tr))

\* the lower-case letter of a letter of the option names
tolower(c) ==
  CASE c = "C" -> "c" [] c = "I" -> "i" [] c = "A" -> "a" [] c = "N" -> "n"
    [] c = "P" -> "p" [] c = "W" -> "w" [] c = "F" -> "f" [] OTHER -> c

\* octave::string::strcmpi (a, b)
strcmpi(a, b) ==
  Len(a) = Len(b) /\ \A i \in DOMAIN a : tolower(a[i]) = tolower(b[i])

\* the options read so far by the loop of jsonencode
Options(convertInfAndNaN, prettyWriter, err) ==
  [ConvertInfAndNaN |-> convertInfAndNaN, PrettyWriter |-> prettyWriter, err |-> err]

\* a slip: the value of an option read without the test that it is a
\* logical scalar
RECURSIVE ReadOptions_unchecked(_, _, _)
ReadOptions_unchecked(args, i, read) ==
  IF i > Len(args) THEN read
  ELSE IF ~ is_string(args[i]) THEN [read EXCEPT !.err = TRUE]
  ELSE LET option_name == args[i].chr
           bool_value == args[i + 1].num # <<IntNum(0)>>
       IN IF strcmpi(option_name, Name_ConvertInfAndNaN)
            THEN ReadOptions_unchecked(args, i + 2, [read EXCEPT !.ConvertInfAndNaN = bool_value])
          ELSE IF strcmpi(option_name, Name_PrettyWriter)
            THEN ReadOptions_unchecked(args, i + 2, [read EXCEPT !.PrettyWriter = bool_value])
          ELSE [read EXCEPT !.err = TRUE]

\* for (octave_idx_type i = 1; i < nargin; ++i): the options after the loop
\* has read args(i), args(i+1), ...; err after a call of error ()
RECURSIVE ReadOptions(_, _, _)
ReadOptions(args, i, read) ==
  IF i > Len(args) THEN read
  ELSE IF ~ is_string(args[i]) THEN [read EXCEPT !.err = TRUE]
  ELSE IF ~ is_bool_scalar(args[i + 1]) THEN [read EXCEPT !.err = TRUE]
  ELSE LET option_name == args[i].chr
           bool_value == args[i + 1].num[1] # IntNum(0)
       IN IF strcmpi(option_name, Name_ConvertInfAndNaN)
            THEN ReadOptions(args, i + 2, [read EXCEPT !.ConvertInfAndNaN = bool_value])
          ELSE IF strcmpi(option_name, Name_PrettyWriter)
            THEN ReadOptions(args, i + 2, [read EXCEPT !.PrettyWriter = bool_value])
          ELSE [read EXCEPT !.err = TRUE]

jsonencode ==
  /\ pc = "encode"
  /\ IF nargin \notin {1, 3, 5}
       THEN /\ status' = "print_usage"
            /\ pc' = "encode_failed"
            /\ UNCHANGED <<ConvertInfAndNaN, PrettyWriter, warning_state, json, trace>>
       ELSE LET read == ReadOptions(encode_options, 1, Options(TRUE, FALSE, FALSE))
                r == encode(obj, read.ConvertInfAndNaN)
            IN IF read.err
                 THEN /\ status' = "option_error"
                      /\ pc' = "encode_failed"
                      /\ UNCHANGED <<ConvertInfAndNaN, PrettyWriter, warning_state, json, trace>>
                 ELSE /\ ConvertInfAndNaN' = read.ConvertInfAndNaN
                      /\ PrettyWriter' = read.PrettyWriter
                      /\ trace' = r.tr
                      /\ warning_state' = WarningAfter(warning_state, r.tr)
                      /\ status' = IF r.err THEN "error" ELSE IF r.oob THEN "undefined" ELSE "ok"
                      /\ json' = IF r.err \/ r.oob THEN <<>> ELSE SelectSeq(r.tr, IsToken)
                      /\ pc' = IF r.err \/ r.oob THEN "encode_failed" ELSE "encoded"
  /\ UNCHANGED <<nargin, obj, encode_options, json_class, decode_options, doc, val>>

\* jsondecode, called with the arguments of the state or, after jsonencode,
\* with the text that jsonencode returned
jsondecode ==
  /\ pc \in {"decode", "encoded"}
  /\ LET n == IF pc = "encoded" THEN 1 ELSE nargin
         class == IF pc = "encoded" THEN "char" ELSE json_class
         d == Parse(json)
         v == decode(d, decode_options)
     IN IF n % 2 = 0
          THEN doc' = doc /\ val' = NoValue /\ status' = "print_usage" /\ pc' = "decode_failed"
        ELSE IF class # "char"
          THEN doc' = doc /\ val' = NoValue /\ status' = "input_error" /\ pc' = "decode_failed"
        ELSE /\ doc' = d
             /\ IF HasParseError(d)
                  THEN val' = NoValue /\ status' = "parse_error" /\ pc' = "decode_failed"
                  ELSE IF IsError(v)
                    THEN val' = NoValue /\ status' = "error" /\ pc' = "decode_failed"
                    ELSE val' = v /\ status' = "ok" /\ pc' = "decoded"
  /\ UNCHANGED <<nargin, obj, encode_options, ConvertInfAndNaN, PrettyWriter, json_class,
                 decode_options, warning_state, json, trace>>

Next == jsonencode \/ jsondecode

Spec == Init /\ [][Next]_vars

(***************************************************************************)
(* Properties.                                                             *)
(***************************************************************************)
\* jsonencode has been called on obj with arguments that it accepts
Encoded == obj # NoValue /\ pc # "encode" /\ status \notin {"print_usage", "option_error"}

\* jsonencode has raised an error
EncodeFailed == Encoded /\ pc = "encode_failed"

\* jsondecode has been called on the text json, not on the result of
\* jsonencode, and has parsed it
Decoded == obj = NoValue /\ pc \in {"decoded", "decode_failed"} /\ doc # NoNode

\* jsonencode has returned the text json
EncodeReturned == Encoded /\ ~ EncodeFailed

\* jsonencode and then jsondecode have returned
RoundTripped == obj # NoValue /\ pc = "decoded"

\* the JSON value of the tokens among the steps tr
ValueOf(tr) == Parse(SelectSeq(tr, IsToken))

AllFinite(v) == \A i \in DOMAIN v.num : v.num[i].sp = "fin"

\* the node found in node by following the indices of path
RECURSIVE NodeAt(_, _)
NodeAt(node, path) ==
  IF Len(path) = 0 THEN node
  ELSE IF node.t = "Array" /\ Head(path) \in DOMAIN node.elems
    THEN NodeAt(node.elems[Head(path)], Tail(path))
    ELSE ParseErrorNode

\* node is an array nested as dims says: dims[1] elements, each of them an
\* array of dims[2] elements, and so on down to the leaves
RECURSIVE NestedAs(_, _)
NestedAs(node, dims) ==
  IF Len(dims) = 0 THEN node.t \notin {"Array", "Object", "ParseError"}
  ELSE /\ node.t = "Array"
       /\ Len(node.elems) = Head(dims)
       /\ \A i \in DOMAIN node.elems : NestedAs(node.elems[i], Tail(dims))

\* the index tuples of an array with the dimensions dims
Subscripts(dims) == {Ind2Sub(lin, dims) : lin \in 1..Prod(dims)}

\* C1 (as claimed): every array A of finite doubles (a scalar, a row or column
\* vector, a matrix, an N-D array) comes back from jsondecode (jsonencode (A))
\* with the shape of A and the elements of A.
C1_RoundTrip ==
  (Encoded /\ obj.cls = "double" /\ numel(obj) >= 1 /\ AllFinite(obj)
     /\ pc \in {"decoded", "encode_failed", "decode_failed"})
    => (pc = "decoded" /\ val.cls = "double" /\ val.dims = obj.dims /\ val.num = obj.num)

C3_IntegerBoundary ==
  (Encoded /\ isnumeric(obj) /\ is_real_scalar(obj)
     /\ obj.num[1].sp = "fin" /\ obj.num[1].fn = 0)
    => /\ ~ EncodeFailed
       /\ json = IF -IntLimit <= obj.num[1].fl /\ obj.num[1].fl <= IntLimit
                   THEN <<Int64(obj.num[1].fl)>>
                   ELSE <<Double(obj.num[1])>>

\* C4 (as claimed): a finite double scalar that differs from its floor, by
\* however little, is written as a floating-point number and never as a JSON
\* integer.
C4_FractionIsDouble ==
  (Encoded /\ obj.cls = "double" /\ is_real_scalar(obj)
     /\ obj.num[1].sp = "fin" /\ obj.num[1].fn # 0)
    => json = <<Double(obj.num[1])>>

\* the integers that stand for NaN, Inf and -Inf in a marked value
MarkOf(value) ==
  CASE value.sp = "nan" -> IntNum(900001)
    [] value.sp = "pinf" -> IntNum(900002)
    [] value.sp = "ninf" -> IntNum(900003)
    [] OTHER -> value

\* v with every NaN, Inf and -Inf replaced by its mark
RECURSIVE Marked(_)
Marked(v) ==
  [v EXCEPT !.num = [i \in DOMAIN v.num |-> MarkOf(v.num[i])],
            !.sub = [i \in DOMAIN v.sub |-> Marked(v.sub[i])]]

\* the token claimed for a NaN, Inf or -Inf in the place of its mark
Unmarked(tok, convertInfAndNaN) ==
  IF tok.t = "Int64" /\ tok.num.fl \in {900001, 900002, 900003}
    THEN IF convertInfAndNaN THEN Null
         ELSE Double(CASE tok.num.fl = 900001 -> octave_NaN
                       [] tok.num.fl = 900002 -> octave_Inf
                       [] tok.num.fl = 900003 -> octave_NegInf)
    ELSE tok

\* C5 (as claimed): every NaN, Inf and -Inf that jsonencode reaches, as the
\* scalar given or at any depth in an array, a struct, a cell or a map, is
\* written in its place as null when ConvertInfAndNaN is true and as NaN,
\* Infinity, -Infinity when it is false.
C5_NonFinite ==
  (Encoded /\ Marked(obj) # obj /\ ~ encode(Marked(obj), ConvertInfAndNaN).err)
    => /\ ~ EncodeFailed
       /\ LET marked == SelectSeq(encode(Marked(obj), ConvertInfAndNaN).tr, IsToken)
          IN json = [i \in DOMAIN marked |-> Unmarked(marked[i], ConvertInfAndNaN)]

\* C6 (as claimed): every element of a logical array, of any rank and shape,
\* is written as true or false and never as a number.
C6_LogicalArray ==
  (EncodeReturned /\ islogical(obj) /\ numel(obj) > 1)
    => /\ \A i \in DOMAIN json : json[i].t \in {"StartArray", "EndArray", "True", "False"}
       /\ Len(SelectSeq(json, LAMBDA tok : tok.t \in {"True", "False"})) = numel(obj)

\* row i of a 2-D character array, in column order
RowOf(v, i) == [k \in 1..v.dims[2] |-> v.chr[(k - 1) * v.dims[1] + i]]

\* C7 (as claimed): a character array of one row is written as one JSON
\* string of its characters; a 2-D character array of R > 1 rows, of any
\* width, is written as a JSON array of R strings, the i-th being row i.
C7_CharArray ==
  (Encoded /\ is_string(obj) /\ Len(obj.dims) = 2 /\ numel(obj) >= 1)
    => /\ ~ EncodeFailed
       /\ json = IF obj.dims[1] = 1
                   THEN <<String(obj.chr)>>
                   ELSE <<StartArray>> \o [i \in 1..obj.dims[1] |-> String(RowOf(obj, i))]
                          \o <<EndArray>>

\* jsonencode raises no error for any of the values vs
Encodable(vs) == \A i \in DOMAIN vs : ~ encode(vs[i], ConvertInfAndNaN).err

IsEmptyNumeric(v) == isnumeric(v) /\ \E i \in DOMAIN v.dims : v.dims[i] = 0

IsFieldlessStruct(v) == isstruct(v) /\ v.dims = <<1, 1>> /\ Len(v.keys) = 0

IsEmptyString(v) == is_string(v) /\ \E i \in DOMAIN v.dims : v.dims[i] = 0

\* C8: an empty numeric array is written as [], a scalar struct without fields
\* as {} and an empty character array as "", as the value given to jsonencode
\* and as the value of a field of a struct.
C8_EmptyValues ==
  Encoded =>
    /\ IsEmptyNumeric(obj) => (~ EncodeFailed /\ json = <<StartArray, EndArray>>)
    /\ IsFieldlessStruct(obj) => (~ EncodeFailed /\ json = <<StartObject, EndObject>>)
    /\ IsEmptyString(obj) => (~ EncodeFailed /\ json = <<String(<<>>)>>)
    /\ (isstruct(obj) /\ obj.dims = <<1, 1>> /\ Encodable(obj.sub)) =>
         /\ ~ EncodeFailed
         /\ Parse(json).t = "Object"
         /\ Len(Parse(json).elems) = Len(obj.keys)
         /\ \A k \in DOMAIN obj.keys :
              /\ IsEmptyNumeric(obj.sub[k]) => Parse(json).elems[k] = ArrayNode(<<>>)
              /\ IsFieldlessStruct(obj.sub[k]) => Parse(json).elems[k] = ObjectNode(<<>>, <<>>)
              /\ IsEmptyString(obj.sub[k]) => Parse(json).elems[k] = StringNode(<<>>)

C8_Witness ==
  /\ EncodeReturned
  /\ obj = Struct(<<1, 1>>, <<"a", "c", "b">>, Fields(3, 4))
  /\ json = <<StartObject, Key("a"), StartArray, EndArray, Key("c"), StartObject, EndObject,
              Key("b"), String(<<>>), EndObject>>

\* the JSON object claimed for element i of the struct array v
ObjectFor(v, i, convertInfAndNaN) ==
  ObjectNode(v.keys,
             [k \in DOMAIN v.keys |->
                ValueOf(encode(v.sub[(i - 1) * Len(v.keys) + k], convertInfAndNaN).tr)])

\* C9: a struct of one element is written as one JSON object, a struct array
\* of N >= 2 elements as a JSON array of N objects; each object has one member
\* for each field, in the order of the fields, whose value is the encoding of
\* the field of that element (the fields being values that jsonencode
\* encodes).
C9_StructArity ==
  (Encoded /\ isstruct(obj) /\ numel(obj) >= 1 /\ Encodable(obj.sub))
    => /\ ~ EncodeFailed
       /\ Parse(json) =
            IF numel(obj) = 1 THEN ObjectFor(obj, 1, ConvertInfAndNaN)
            ELSE ArrayNode([i \in 1..numel(obj) |-> ObjectFor(obj, i, ConvertInfAndNaN)])

C9_Witness ==
  /\ EncodeReturned
  /\ isstruct(obj)
  /\ numel(obj) = 2
  /\ Len(obj.keys) = 2
  /\ Parse(json).t = "Array"
  /\ Len(Parse(json).elems) = 2
  /\ Parse(json).elems[2].names = obj.keys

\* the names of the fields an object decodes to: its member names made valid,
\* each kept where it occurs first
RECURSIVE FieldNames(_, _)
FieldNames(names, opts) ==
  IF Len(names) = 0 THEN <<>>
  ELSE LET front == FieldNames(SubSeq(names, 1, Len(names) - 1), opts)
           name == makeValidName(names[Len(names)], opts)
       IN IF \E i \in DOMAIN front : front[i] = name THEN front ELSE Append(front, name)

ValidNames(names, opts) == [i \in DOMAIN names |-> makeValidName(names[i], opts)]

\* the last member of the object node whose name made valid is name
LastMember(node, name, opts) ==
  LET at == {i \in DOMAIN node.names : makeValidName(node.names[i], opts) = name}
  IN node.elems[CHOOSE i \in at : \A j \in at : j <= i]

\* doc is an array of N >= 1 objects
IsObjectArray(d) ==
  d.t = "Array" /\ Len(d.elems) >= 1 /\ \A k \in DOMAIN d.elems : d.elems[k].t = "Object"

\* C10 (as claimed): a JSON array of N >= 1 objects whose sequences of valid
\* field names are all the same, of any length, decodes to a struct array of
\* exactly N elements with the fields in that order, field f of element k
\* being the decoded member f of object k.
C10_ObjectArray ==
  (Decoded /\ IsObjectArray(doc)
     /\ \A k \in DOMAIN doc.elems :
          ValidNames(doc.elems[k].names, decode_options)
            = ValidNames(doc.elems[1].names, decode_options))
    => /\ pc = "decoded"
       /\ isstruct(val)
       /\ numel(val) = Len(doc.elems)
       /\ val.keys = FieldNames(doc.elems[1].names, decode_options)
       /\ Len(val.sub) = Len(doc.elems) * Len(val.keys)
       /\ \A k \in DOMAIN doc.elems : \A f \in DOMAIN val.keys :
            val.sub[(k - 1) * Len(val.keys) + f]
              = decode(LastMember(doc.elems[k], val.keys[f], decode_options), decode_options)

\* val is the cell of the N scalar structs that the objects of doc decode to
IsCellOfStructs ==
  /\ pc = "decoded"
  /\ iscell(val)
  /\ val.dims = <<Len(doc.elems), 1>>
  /\ Len(val.sub) = Len(doc.elems)
  /\ \A k \in DOMAIN doc.elems :
       /\ isstruct(val.sub[k]) /\ val.sub[k].dims = <<1, 1>>
       /\ val.sub[k] = decode(doc.elems[k], decode_options)

\* C11 (as claimed): when two objects of a JSON array of objects differ in
\* their sequence of member names made valid (other names, another count or
\* another order), jsondecode gives a cell of N scalar structs, element k the
\* decoded object k, and never a struct array.
C11_AsClaimed ==
  (Decoded /\ IsObjectArray(doc)
     /\ \E k \in DOMAIN doc.elems :
          ValidNames(doc.elems[k].names, decode_options)
            # ValidNames(doc.elems[1].names, decode_options))
    => IsCellOfStructs

\* C11 (amended): when two objects of a JSON array of objects decode to
\* structs whose sequences of field names differ (other names, another count
\* or another order, a name that occurs again in an object counted once),
\* jsondecode gives a cell of N scalar structs, element k the decoded object
\* k, and never a struct array.
C11_Heterogeneous ==
  (Decoded /\ IsObjectArray(doc)
     /\ \E k \in DOMAIN doc.elems :
          FieldNames(doc.elems[k].names, decode_options)
            # FieldNames(doc.elems[1].names, decode_options))
    => IsCellOfStructs

\* the objects {"a":..,"b":..} and {"b":..,"a":..} come back as a cell
C11_Witness ==
  /\ obj = NoValue /\ pc = "decoded" /\ IsObjectArray(doc)
  /\ Len(doc.elems) = 2
  /\ doc.elems[1].names = <<"a", "b">>
  /\ doc.elems[2].names = <<"b", "a">>
  /\ iscell(val)
  /\ val.sub[2].keys = <<"b", "a">>

C13_WarningRestored ==
  [][(pc = "encode" /\ HasMap(obj) /\ pc' = "encoded") => warning_state' = warning_state]_vars

\* the steps tr end between the two calls of set_warning_state of a map
InsideMap(tr) ==
  Len(SelectSeq(tr, LAMBDA step : step = set_warning_state("off")))
    > Len(SelectSeq(tr, LAMBDA step : step = set_warning_state("on")))

\* C14 (as claimed): when the encoding of the contents of a map raises an
\* error, the state of the warning Octave:classdef-to-struct after the failed
\* call is the state before the call.
C14_WarningRestoredOnError ==
  [][(pc = "encode" /\ status' = "error" /\ InsideMap(trace'))
       => warning_state' = warning_state]_vars

\* C15 (as claimed): jsondecode returns a value and raises no error for every
\* well-formed JSON text, whatever the nesting of its arrays and objects.
C15_DecodeTotal ==
  (pc \in {"decoded", "decode_failed"} /\ doc # NoNode /\ ~ HasParseError(doc))
    => pc = "decoded"

\* the option names and values of the call of jsonencode: args(1), args(3)
\* are names, args(2), args(4) are values
OptionPairs == {i \in DOMAIN encode_options : i % 2 = 1}

\* chars is ConvertInfAndNaN or PrettyWriter, in whatever case
IsOptionName(chars) ==
  \/ [i \in DOMAIN chars |-> tolower(chars[i])]
       = [i \in DOMAIN Name_ConvertInfAndNaN |-> tolower(Name_ConvertInfAndNaN[i])]
  \/ [i \in DOMAIN chars |-> tolower(chars[i])]
       = [i \in DOMAIN Name_PrettyWriter |-> tolower(Name_PrettyWriter[i])]

\* the arguments of the call of jsonencode are not valid
BadEncodeArguments ==
  \/ nargin \notin {1, 3, 5}
  \/ \E i \in OptionPairs :
       \/ encode_options[i].cls # "char"
       \/ ~ IsOptionName(encode_options[i].chr)
       \/ encode_options[i + 1].cls # "bool"
       \/ encode_options[i + 1].dims # <<1, 1>>

\* the arguments of the call of jsonencode are valid, its option names
\* written as ConvertInfAndNaN and PrettyWriter
GoodEncodeArguments ==
  /\ nargin \in {1, 3, 5}
  /\ \A i \in OptionPairs :
       /\ encode_options[i] \in {Str(Name_ConvertInfAndNaN), Str(Name_PrettyWriter)}
       /\ encode_options[i + 1] \in {Scalar("bool", IntNum(0)), Scalar("bool", IntNum(1))}

\* the value of the option name: that of the last pair that gives it, or
\* default when no pair gives it
OptionGiven(name, default) ==
  LET at == {i \in OptionPairs : encode_options[i] = Str(name)}
  IN IF at = {} THEN default
     ELSE encode_options[(CHOOSE i \in at : \A j \in at : j <= i) + 1] = Scalar("bool", IntNum(1))

C17_DecodeArguments ==
  (obj = NoValue /\ pc \in {"decoded", "decode_failed"})
    => /\ nargin % 2 = 0 => status = "print_usage"
       /\ (nargin % 2 = 1 /\ json_class # "char") => status = "input_error"
       /\ (nargin % 2 = 1 /\ json_class = "char" /\ json \in MalformedTexts)
            => (status = "parse_error" /\ GetErrorOffset(doc) \in 0..Len(json))
       /\ (nargin % 2 = 1 /\ json_class = "char" /\ json \in DecodeInputs)
            => /\ status \in {"ok", "error"}
               /\ status = "ok" => val = decode(doc, decode_options)
               /\ (status = "ok" /\ doc.t = "Object")
                    => val.keys = FieldNames(doc.names, decode_options)
       /\ pc = "decode_failed" => val = NoValue

\* the text [1 given with a pair of options: a parse error at the end of
\* the text, and no value
C17_Witness ==
  /\ obj = NoValue
  /\ pc = "decode_failed"
  /\ nargin = 3
  /\ json = <<StartArray, Int64(1)>>
  /\ status = "parse_error"
  /\ GetErrorOffset(doc) = 2
  /\ val = NoValue

\* C18 (as claimed): jsonencode raises the unsupported-type error for no
\* logical or numeric scalar, be it double, single or of an integer type and
\* whatever its value, and writes the scalar as it writes the same value as
\* an element of a numeric array.
C18_ScalarSupported ==
  (Encoded /\ is_real_scalar(obj))
    => /\ ~ EncodeFailed
       /\ <<StartArray>> \o json \o json \o <<EndArray>>
            = SelectSeq(encode(NumArray(obj.cls, <<1, 2>>, <<obj.num[1], obj.num[1]>>),
                               ConvertInfAndNaN).tr, IsToken)

\* the kinds of the elements of the array node d
AllOf(d, kinds) == \A i \in DOMAIN d.elems : d.elems[i].t \in kinds

\* C19: an empty JSON array decodes to the 0x0 numeric array; an array of
\* nulls and numbers to a numeric array; else an array of true and false to a
\* logical array; else an array of strings to a cell of strings, never a
\* character matrix; else an array of objects to a struct array or a cell of
\* structs; else an array of arrays to an N-D array or a cell; an array of
\* any other mix of kinds to a cell.
C19_Classification ==
  (Decoded /\ doc.t = "Array" /\ pc = "decoded")
    => LET n == Len(doc.elems)
       IN IF n = 0 THEN val = NumArray("double", <<0, 0>>, <<>>)
          ELSE IF AllOf(doc, {"Null", "Number"}) THEN val.cls = "double" /\ Len(val.num) = n
          ELSE IF AllOf(doc, {"True", "False"}) THEN val.cls = "bool" /\ Len(val.num) = n
          ELSE IF AllOf(doc, {"String"})
            THEN /\ val.cls = "cell" /\ Len(val.sub) = n
                 /\ \A i \in 1..n : val.sub[i].cls = "char" /\ val.sub[i].chr = doc.elems[i].str
          ELSE IF AllOf(doc, {"Object"})
            THEN \/ val.cls = "struct"
                 \/ val.cls = "cell" /\ Len(val.sub) = n
                      /\ \A i \in 1..n : val.sub[i].cls = "struct"
          ELSE IF AllOf(doc, {"Array"})
            THEN \/ val.cls = "double" /\ val.dims[1] = n
                 \/ val.cls = "cell" /\ Len(val.sub) = n
                      /\ \A i \in 1..n : val.sub[i] = decode(doc.elems[i], decode_options)
          ELSE /\ val.cls = "cell" /\ Len(val.sub) = n
               /\ \A i \in 1..n : val.sub[i] = decode(doc.elems[i], decode_options)

\* [false, true] is a logical array, ["s", 1] a cell
C19_Witness ==
  /\ Decoded /\ pc = "decoded"
  /\ doc = ArrayNode(<<BoolNode(FALSE), BoolNode(TRUE), BoolNode(TRUE)>>)
  /\ val = NumArray("bool", <<3, 1>>, <<IntNum(0), IntNum(1), IntNum(1)>>)

\* C20: a JSON array of N elements that decodes as a numeric array, a logical
\* array or a cell gives N-by-1 elements in the order of the text: in a
\* numeric array NaN for null and the number for a number, in a logical
\* array the truth value, in a cell the decoded element.
C20_FlatArray ==
  (Decoded /\ doc.t = "Array" /\ Len(doc.elems) >= 1
     /\ ~ AllOf(doc, {"Object"}) /\ ~ AllOf(doc, {"Array"}))
    => /\ pc = "decoded"
       /\ val.dims = <<Len(doc.elems), 1>>
       /\ IF AllOf(doc, {"Null", "Number"})
            THEN /\ val.cls = "double"
                 /\ val.num = [i \in DOMAIN doc.elems |->
                                IF doc.elems[i].t = "Null" THEN octave_NaN ELSE doc.elems[i].num]
          ELSE IF AllOf(doc, {"True", "False"})
            THEN /\ val.cls = "bool"
                 /\ val.num = [i \in DOMAIN doc.elems |->
                                IF doc.elems[i].t = "True" THEN IntNum(1) ELSE IntNum(0)]
          ELSE /\ val.cls = "cell"
               /\ val.sub = [i \in DOMAIN doc.elems |-> decode(doc.elems[i], decode_options)]

\* [1, null, 2.5] is the column 1, NaN, 2.5
C20_Witness ==
  /\ Decoded /\ pc = "decoded"
  /\ doc = ArrayNode(<<UintNode(1), NullNode, NumberNode("double", Fin(2, 1, 1))>>)
  /\ val = NumArray("double", <<3, 1>>, <<IntNum(1), octave_NaN, Fin(2, 1, 1)>>)

\* the document is a JSON array of arrays, each of which decodes to a value
IsArrayOfArrays ==
  /\ Decoded /\ doc.t = "Array" /\ Len(doc.elems) >= 1 /\ AllOf(doc, {"Array"})
  /\ \A i \in DOMAIN doc.elems : ~ IsError(decode(doc.elems[i], decode_options))

\* the decoded elements of the array document
Sub(i) == decode(doc.elems[i], decode_options)

\* one of the rules that keep the decoded elements in a cell applies
Rejected ==
  \/ \E i \in DOMAIN doc.elems : Sub(i).cls = "cell"
  \/ \E i, j \in DOMAIN doc.elems : Sub(i).dims # Sub(j).dims
  \/ \E i \in DOMAIN doc.elems : \E k \in DOMAIN Sub(i).dims : Sub(i).dims[k] = 0
  \/ \E i, j \in DOMAIN doc.elems : Sub(i).cls = "bool" /\ Sub(j).cls = "double"

\* C21 (as claimed): a JSON array of arrays decodes, without error, to the
\* cell of its decoded elements whenever one of them is a cell, two of them
\* differ in shape, one of them is empty, or one is logical and another
\* numeric; an N-D array is returned only when every decoded element is a
\* numeric or logical array.
C21_Rejection ==
  IsArrayOfArrays
    => /\ Rejected
           => /\ pc = "decoded"
              /\ val = Cell(<<Len(doc.elems), 1>>, [i \in DOMAIN doc.elems |-> Sub(i)])
       /\ (pc = "decoded" /\ val.cls # "cell")
           => \A i \in DOMAIN doc.elems : Sub(i).cls \in {"bool", "double"}

\* C22 (as claimed): when no such rule applies, a JSON array of K arrays that
\* each decode to the shape S decodes to an array of the shape (K, S...)
\* whose element (k, j1, ..., jm) is element (j1, ..., jm) of the k-th
\* decoded array.
C22_Reconstruction ==
  (IsArrayOfArrays /\ ~ Rejected)
    => LET K == Len(doc.elems)
           S == Sub(1).dims
       IN /\ pc = "decoded"
          /\ val.dims = chop_trailing_singletons(<<K>> \o S)
          /\ \A k \in 1..K : \A j \in Subscripts(S) :
                val.num[Sub2Ind(<<k>> \o j, <<K>> \o S)] = Sub(k).num[Sub2Ind(j, S)]

\* an N-D array was built from K >= 2 decoded arrays of two elements or more
Reconstructed ==
  /\ IsArrayOfArrays /\ pc = "decoded" /\ val.cls # "cell"
  /\ Len(doc.elems) >= 2 /\ numel(Sub(1)) >= 2

\* C23 (as claimed): in the storage order of the array built from an array
\* of arrays, every element of the first decoded array comes before every
\* element of the second, and so on.
C23_ElementMajor ==
  Reconstructed
    => \A k \in DOMAIN doc.elems : \A i \in 1..numel(Sub(1)) :
         val.num[(k - 1) * numel(Sub(1)) + i] = Sub(k).num[i]

\* C23: in the storage order of the array built from K decoded arrays, the
\* elements of the decoded arrays alternate: the i-th elements of the K
\* arrays, in the order of the arrays, come before their (i+1)-th elements.
C23_Interleaved ==
  Reconstructed
    => \A k \in DOMAIN doc.elems : \A i \in 1..numel(Sub(1)) :
         val.num[(i - 1) * Len(doc.elems) + k] = Sub(k).num[i]

\* [[1,2],[3,null]] is stored as 1, 3, 2, NaN
C23_Witness ==
  /\ Reconstructed
  /\ doc = ArrayNode(<<ArrayNode(<<UintNode(1), UintNode(2)>>), ArrayNode(<<UintNode(3), NullNode>>)>>)
  /\ val = NumArray("double", <<2, 2>>, <<IntNum(1), IntNum(3), IntNum(2), octave_NaN>>)

\* the dimensions of v that are not 1
NonSingleton(v) == {d \in DOMAIN v.dims : v.dims[d] # 1}

\* the JSON value written for element i of the array v; a logical element
\* that has gone through array_value () is written as the number 1 or 0
ElementNodes(v, i) ==
  {ValueOf(encode_numeric(Scalar("double", v.num[i]), ConvertInfAndNaN).tr)}
    \cup IF islogical(v) THEN {ValueOf(encode_numeric(Scalar("bool", v.num[i]), ConvertInfAndNaN).tr)}
          ELSE {}

\* C24: the JSON of a numeric or logical array with two or more dimensions
\* other than 1 is nested as deep as the rank of the array, a dimension of 1
\* being a JSON array of one element; the JSON of an array with exactly one
\* dimension other than 1 is one flat JSON array of its elements in order.
C24_SingletonPadding ==
  (Encoded /\ (isnumeric(obj) \/ islogical(obj)) /\ numel(obj) >= 2)
    => /\ ~ EncodeFailed
       /\ Cardinality(NonSingleton(obj)) >= 2
            => /\ NestedAs(Parse(json), obj.dims)
               /\ \A sub \in Subscripts(obj.dims) :
                    NodeAt(Parse(json), sub) \in ElementNodes(obj, Sub2Ind(sub, obj.dims))
       /\ Cardinality(NonSingleton(obj)) = 1
            => /\ NestedAs(Parse(json), <<numel(obj)>>)
               /\ \A i \in 1..numel(obj) : NodeAt(Parse(json), <<i>>) \in ElementNodes(obj, i)

\* a 2x1x2 array is written as [[[1,3]],[[2,4]]]
C24_Witness ==
  /\ EncodeReturned /\ obj.cls = "double" /\ obj.dims = <<2, 1, 2>>
  /\ NestedAs(Parse(json), <<2, 1, 2>>)
  /\ Parse(json).elems[2].elems[1].elems[1] = NumberNode("uint", IntNum(2))

\* C25: a JSON object decodes to a struct of one element whose fields are
\* the member names made valid, in the order in which they first occur, each
\* field holding the decoded value of the last member with that valid name;
\* the member values are decoded with the options of the call.
C25_ObjectDecode ==
  (Decoded /\ doc.t = "Object"
     /\ \A i \in DOMAIN doc.elems : ~ IsError(decode(doc.elems[i], decode_options)))
    => /\ pc = "decoded"
       /\ val.cls = "struct" /\ val.dims = <<1, 1>>
       /\ val.keys = FieldNames(doc.names, decode_options)
       /\ val.sub = [k \in DOMAIN val.keys |->
                       decode(LastMember(doc, val.keys[k], decode_options), decode_options)]

\* {"a":null,"a-b":{"a-b":1,"ab":"s"},"a":[{"a-b":null}]} with the
\* ReplacementStyle "delete": the fields a and ab, the nested names ab
C25_Witness ==
  /\ Decoded /\ pc = "decoded" /\ decode_options = <<"ReplacementStyle", "delete">>
  /\ doc.t = "Object" /\ doc.names = <<"a", "a-b", "a">>
  /\ val.keys = <<"a", "ab">>
  /\ val.sub[1] = Struct(<<1, 1>>, <<"ab">>, <<EmptyMatrix>>)
  /\ val.sub[2] = Struct(<<1, 1>>, <<"ab">>, <<CharArray(<<1, 1>>, <<"s">>)>>)

\* C26 (as claimed): from the start of the translation of a map until its
\* last member has been written the warning Octave:classdef-to-struct is off
\* at every step, the steps after the encoding of a map nested in it
\* included.
C26_WarningOffInsideMap ==
  Encoded
    => \A n \in 1..(Len(trace) - 1) :
         \* the next step writes the name of a member inside a map
         (InsideMap(SubSeq(trace, 1, n)) /\ trace[n + 1].t = "Key")
           => WarningAfter("on", SubSeq(trace, 1, n)) = "off"

\* the calls of encode_array and encode_string in jsonencode (obj)
Calls == encode(obj, ConvertInfAndNaN).calls

\* the rank of the value given to jsonencode
Rank == Len(obj.dims)

\* obj is a numeric, logical or character array that is not empty
IsFoldedArray ==
  /\ Encoded /\ numel(obj) >= 1
  /\ isnumeric(obj) \/ islogical(obj) \/ is_string(obj)
  /\ ~ is_real_scalar(obj)

C28_OneValue ==
  EncodeReturned => ~ HasParseError(Parse(json))

\* C29 (as claimed): a JSON array whose arrays all decode to logical arrays
\* of one shape decodes to a logical array, and one whose arrays all decode
\* to numeric arrays of one shape to a numeric array.
C29_KindPreserved ==
  (IsArrayOfArrays /\ ~ Rejected /\ \E c \in {"bool", "double"} :
                                      \A i \in DOMAIN doc.elems : Sub(i).cls = c)
    => /\ pc = "decoded"
       /\ val.cls = Sub(1).cls
       /\ val.dims = chop_trailing_singletons(<<Len(doc.elems)>> \o Sub(1).dims)

\* C30: a JSON null decodes to NaN exactly where it is an element of an
\* array whose elements are all nulls and numbers, an array of nulls alone
\* included; a null that is the whole text, the value of a member of an
\* object, or an element of an array that holds any other kind of element
\* decodes to the 0x0 numeric array.
C30_NullInContext ==
  (Decoded /\ pc = "decoded")
    => /\ doc.t = "Null" => val = NumArray("double", <<0, 0>>, <<>>)
       /\ doc.t = "Object"
            => \A k \in DOMAIN val.keys :
                 LastMember(doc, val.keys[k], decode_options).t = "Null"
                   => val.sub[k] = NumArray("double", <<0, 0>>, <<>>)
       /\ (doc.t = "Array" /\ Len(doc.elems) >= 1)
            => \A i \in DOMAIN doc.elems :
                 doc.elems[i].t = "Null"
                   => IF AllOf(doc, {"Null", "Number"})
                        THEN val.cls = "double" /\ val.num[i] = octave_NaN
                        ELSE val.cls = "cell" /\ val.sub[i] = NumArray("double", <<0, 0>>, <<>>)

\* [null, "s", null] is a cell that holds [], 's', []
C30_Witness ==
  /\ Decoded /\ pc = "decoded"
  /\ doc = ArrayNode(<<NullNode, StringNode(<<"s">>), NullNode>>)
  /\ val = Cell(<<3, 1>>, <<NumArray("double", <<0, 0>>, <<>>), CharArray(<<1, 1>>, <<"s">>),
                            NumArray("double", <<0, 0>>, <<>>)>>)

====
